---- MODULE Spec2Model ----
(***************************************************************************)
(* Model of overleaf-sync: the command `main` of olsync.py (query the      *)
(* project, fetch its details, download the archive, then run the sync     *)
(* engine sync_func remote -> local and local -> remote) over a local file *)
(* tree and a remote project.                                              *)
(*                                                                         *)
(* Files are names 1..NumNames; a side maps each name to its content       *)
(* (1..NumContents) or to Absent.  zip_file is the archive downloaded at   *)
(* the start of a run (the remote snapshot), remoteFs the project on the   *)
(* server.  mtime[n] is the local file's modification time relative to     *)
(* project["lastUpdated"]: -1 older, 0 the same instant, 1 newer; a file   *)
(* the run writes is newer.  The lists of names (namelist(), the keep      *)
(* list) hold each name once, in ascending order.                          *)
(*                                                                         *)
(* The step that fetches the project details, get_project_infos of         *)
(* olclient.py, has a specification of its own (SpecSession): the          *)
(* websocket is opened, the loop of run() reads the frames the server      *)
(* delivers (peer) one at a time, and execute_action takes what            *)
(* get_project_infos returned or raised.  A frame is the text              *)
(* "head:id:ans:payload" in its parts.                                     *)
(***************************************************************************)
EXTENDS Integers, Sequences, FiniteSets, TLC

\* Bounds of the model: the file names, the distinct file contents, and the
\* number of times the command is invoked in a row.
NumNames == 2
NumContents == 2
MaxRuns == 2

Absent == 0

Names == 1..NumNames
Contents == 1..NumContents
Sides == [Names -> {Absent} \cup Contents]

VARIABLES
  local, remote, no_fail,   \* command line flags of main
  ignored,                  \* names the keep list leaves out (.olignore, hidden)
  policy,                   \* the conflict resolver: "ask" or scripted answers
  localFs, remoteFs, mtime, \* the two sides
  zip_file,                 \* archive downloaded by this run
  project_infos,            \* "none" | "tree" | "failed"
  pc,                       \* position of main
  stage,                    \* position inside sync_func
  files_from, deleted_files, idx,
  newly_add_list, update_list, delete_list, restore_list,
  not_restored_list, not_sync_list, synced_list,
  run,                      \* number of the current invocation of main
  classified,               \* the classifications made, in order
  ops,                      \* the operations applied, in order
  failed,                   \* the steps that failed, as <<run, step>>
  toAtStart,                \* the "to" side when the engine run started
  origin,                   \* the two sides when the first run started
  spc,                      \* position of get_project_infos
  ws,                       \* the websocket connection of the session
  peer,                     \* what the server has yet to deliver, in order
  received,                 \* what ws.read_message() has returned, in order
  sent,                     \* the frames written to the connection, in order
  requests,                 \* the pending requests: id -> request
  outcome,                  \* how get_project_infos ended
  connects,                 \* the number of calls of connect()
  folders,                  \* the folders of project_infos, by id
  docs,                     \* the documents of project_infos
  tlog,                     \* the uploads and remote deletions made, in order
  tpc                       \* position of the loops calling them

flags == <<local, remote, no_fail, ignored, policy>>
sides == <<localFs, remoteFs, mtime>>
lists == <<newly_add_list, update_list, delete_list, restore_list,
           not_restored_list, not_sync_list, synced_list>>
engine == <<stage, files_from, deleted_files, idx>>
history == <<classified, ops, failed, toAtStart, origin>>
session == <<spc, ws, peer, received, sent, requests, outcome, connects>>
tree == <<folders, docs, tlog, tpc>>
vars == <<flags, sides, zip_file, project_infos, pc, engine, lists, run,
          history, session, tree>>

\* ------------------------------------------------------------ helpers

RECURSIVE SeqOf(_)
\* A list enumerating the set S of names (namelist(), glob): ascending.
SeqOf(S) ==
  IF S = {} THEN <<>>
  ELSE LET m == CHOOSE x \in S : \A y \in S : x <= y
       IN <<m>> \o SeqOf(S \ {m})

\* zip_file.namelist()
namelist(z) == {n \in Names : z[n] # Absent}

\* olignore_keep_list(olignore_path): local files, not hidden, not ignored
olignore_keep_list(fs, ign) == {n \in Names : fs[n] # Absent /\ n \notin ign}

\* sync = not (local or remote)
sync == ~(local \/ remote)

R2L == "remote_to_local"
L2R == "local_to_remote"
Phases == {R2L, L2R}

NoFile == [n \in Names |-> Absent]

\* The files as a run of main sees them.
Now == [localFs |-> localFs, remoteFs |-> remoteFs, mtime |-> mtime,
        zip |-> zip_file]

\* ------------------------------------------- the closures main passes

\* from_exists_in_to: os.path.isfile(name) / name in zip_file.namelist()
from_exists_in_to(S, p, n) ==
  IF p = R2L THEN S.localFs[n] # Absent ELSE n \in namelist(S.zip)

\* from_equal_to_to: open(name, 'rb').read() == zip_file.read(name)
from_equal_to_to(S, p, n) == S.localFs[n] = S.zip[n]

\* from_newer_than_to: lastUpdated > getmtime(name) / getmtime(name) > lastUpdated
from_newer_than_to(S, p, n) ==
  IF p = R2L THEN S.mtime[n] = -1 ELSE S.mtime[n] = 1

\* files_from: zip_file.namelist() / olignore_keep_list(olignore_path)
files_from_of(S, p) ==
  IF p = R2L THEN namelist(S.zip) ELSE olignore_keep_list(S.localFs, ignored)

deleted_files_without_sync_test(S, p) ==
  IF p = R2L
  THEN {f \in olignore_keep_list(S.localFs, ignored) : f \notin namelist(S.zip)}
  ELSE {f \in namelist(S.zip) : f \notin olignore_keep_list(S.localFs, ignored)}

\* deleted_files: [f for f in ... if f not in ... and not sync]
deleted_files_of(S, p) ==
  IF p = R2L
  THEN {f \in olignore_keep_list(S.localFs, ignored) :
          f \notin namelist(S.zip) /\ ~sync}
  ELSE {f \in namelist(S.zip) :
          f \notin olignore_keep_list(S.localFs, ignored) /\ ~sync}

\* if remote or sync: ... / if local or sync: ...
phase_selected(p) == IF p = R2L THEN remote \/ sync ELSE local \/ sync

\* The side an operation of phase p acts on.
side_of(p, op) ==
  IF op = "create_file_at_from"
  THEN (IF p = R2L THEN "remote" ELSE "local")
  ELSE (IF p = R2L THEN "local" ELSE "remote")

\* What an operation can do.  A local write or removal succeeds or raises.
\* upload_file and the remote delete_file index project_infos['rootFolder']
\* and raise when project_infos is not a tree; delete_file returns False
\* without a request when it does not find the document ("noop").
outcomes(p, op) ==
  IF side_of(p, op) = "local" THEN {"ok", "raised"}
  ELSE IF project_infos # "tree" THEN {"raised"}
  ELSE IF op = "delete_file_at_to" THEN {"ok", "noop", "raised"}
  ELSE {"ok", "raised"}

write_file_keeps_local(S, n) == S

\* write_file(name, zip_file.read(name)): the file is written now
write_file(S, n) ==
  [S EXCEPT !.localFs[n] = S.zip[n], !.mtime[n] = 1]

\* delete_file(name): os.remove(path)
delete_file(S, n) ==
  [S EXCEPT !.localFs[n] = Absent, !.mtime[n] = 0]

upload_file_keeps_remote(S, n) == S

\* overleaf_client.upload_file(..., name, getsize(name), open(name, 'rb'))
upload_file(S, n) == [S EXCEPT !.remoteFs[n] = S.localFs[n]]

\* overleaf_client.delete_file(project["id"], project_infos, name)
remote_delete_file(S, n) == [S EXCEPT !.remoteFs[n] = Absent]

\* The sides after operation op of phase p on name n ended with res.
apply_effect(S, p, op, n, res) ==
  IF res # "ok" THEN S
  ELSE IF op = "delete_file_at_to"
       THEN (IF p = R2L THEN delete_file(S, n) ELSE remote_delete_file(S, n))
       ELSE IF side_of(p, op) = "local" THEN write_file(S, n)
            ELSE upload_file(S, n)

\* ------------------------------------------------- sync_func, pure parts

lists_appended_without_continue(e, eq, nw, confirmed) ==
  IF e THEN IF ~eq THEN IF ~nw /\ ~confirmed THEN {"not_sync", "update"}
                        ELSE {"update"}
            ELSE {"synced"}
  ELSE {"new"}

lists_appended_newer_first(e, eq, nw, confirmed) ==
  IF e THEN IF nw THEN {"update"}
            ELSE IF ~eq THEN IF ~confirmed THEN {"not_sync"} ELSE {"update"}
                 ELSE {"synced"}
  ELSE {"new"}

lists_appended_answer_ignored(e, eq, nw, confirmed) ==
  IF e THEN IF ~eq THEN {"update"} ELSE {"synced"}
  ELSE {"new"}

\* The lists the first loop of sync_func appends a name to, from
\* from_exists_in_to, from_equal_to_to, from_newer_than_to and click.confirm.
lists_appended(e, eq, nw, confirmed) ==
  IF e THEN IF ~eq THEN IF ~nw /\ ~confirmed THEN {"not_sync"}
                        ELSE {"update"}
            ELSE {"synced"}
  ELSE {"new"}

deletion_list_default_deletes(choice) ==
  IF choice = "r" THEN "restore" ELSE "delete"

confirm_asked_whenever_differs(e, eq, nw) == e /\ ~eq

\* Whether the first loop calls click.confirm for a name: `and` evaluates it
\* only when from_exists_in_to, not from_equal_to_to, not from_newer_than_to.
confirm_asked(e, eq, nw) == e /\ ~eq /\ ~nw

\* The list the second loop appends a name to, from click.prompt's choice.
deletion_list(choice) ==
  IF choice = "d" THEN "delete"
  ELSE IF choice = "r" THEN "restore"
  ELSE "not_restored"

loop_order_deleted_after_create ==
  <<"from", "create", "deleted", "restore", "update", "delete", "report">>

loop_order_update_before_restore ==
  <<"from", "deleted", "create", "update", "restore", "delete", "report">>

\* The loops of sync_func in the order of the code, then the report.
loop_order ==
  <<"from", "deleted", "create", "restore", "update", "delete", "report">>

\* The callback each applying loop calls.
callback_of(st) ==
  IF st = "restore" THEN "create_file_at_from"
  ELSE IF st = "delete" THEN "delete_file_at_to"
  ELSE "create_file_at_to"

position(st) ==
  IF st = "idle" THEN 0
  ELSE CHOOSE k \in 1..Len(loop_order) : loop_order[k] = st

RECURSIVE stage_after(_, _)
\* The next loop with something to iterate over: an empty loop runs no step.
stage_after(st, L) ==
  LET nx == loop_order[position(st) + 1]
  IN IF nx = "report" THEN nx
     ELSE IF Len(L[nx]) > 0 THEN nx
     ELSE stage_after(nx, L)

after_apply_exception_swallowed(res, st, i, L) ==
  IF i < Len(L[st]) THEN [raised |-> FALSE, stage |-> st, idx |-> i + 1]
  ELSE [raised |-> FALSE, stage |-> stage_after(st, L), idx |-> 1]

\* Where sync_func stands after a callback: an exception leaves the function
\* (except ... raise click.ClickException), anything else goes on.
after_apply(res, st, i, L) ==
  IF res = "raised" THEN [raised |-> TRUE, stage |-> "idle", idx |-> 1]
  ELSE IF i < Len(L[st]) THEN [raised |-> FALSE, stage |-> st, idx |-> i + 1]
  ELSE [raised |-> FALSE, stage |-> stage_after(st, L), idx |-> 1]

\* main after the sync of phase p
next_pc(p) == IF p = R2L THEN L2R ELSE "done"

after_execute_action_goes_on(success, next) == next

\* execute_action: a falsy result or an exception raises ClickException
\* unless no_fail
after_execute_action(success, next) ==
  IF success THEN next ELSE IF no_fail THEN next ELSE "aborted"

\* ----------------------------------------------------- conflict resolver

AskUser == [scripted |-> FALSE, overwrite |-> FALSE, deletion |-> "i"]
Scripted == [scripted : {TRUE}, overwrite : BOOLEAN, deletion : {"d", "r", "i"}]

\* click.confirm(...)
confirm_answers == IF policy.scripted THEN {policy.overwrite} ELSE BOOLEAN
\* click.prompt(..., default="i", type=click.Choice(['d', 'r', 'i']))
prompt_answers == IF policy.scripted THEN {policy.deletion} ELSE {"d", "r", "i"}

\* ------------------------------------- get_project_infos, pure parts

\* The longest sequence of frames the server delivers in a session.
MaxFrames == 2

\* ws.read_message() gives None when the connection was closed.
Closed == [head |-> "closed", id |-> "", ans |-> "", payload |-> ""]

\* The text before the first colon of a frame.
Heads == {"0", "1", "2", "5", "6", "7", "8", "x"}

\* The text of a payload: nothing, text that is not JSON, the JSON objects
\* {"name": ...} with or without "args", {"args": ...}, the JSON array
\* [null, {...}] and the JSON number 3.
Payloads ==
  {"", "garbage", "connectionAccepted", "joinProjectResponse", "otherEvent",
   "noName", "array", "number"}

\* The frames "head:id:ans:payload" a server can deliver.
Frames ==
  [head : Heads \ {"5", "6"}, id : {""}, ans : {""}, payload : {""}]
    \cup [head : {"5"}, id : {""}, ans : {""}, payload : Payloads]
    \cup [head : {"6"}, id : {""}, ans : {"", "1", "2"},
          payload : {"", "array"}]
    \cup [head : {"6"}, id : {"1"}, ans : {""}, payload : {"array"}]

RECURSIVE SeqsUpTo(_, _)
\* The sequences of at most k elements of S.
SeqsUpTo(S, k) ==
  IF k = 0 THEN {<<>>}
  ELSE LET shorter == SeqsUpTo(S, k - 1)
       IN shorter \cup {Append(q, x) : q \in shorter, x \in S}

\* codere.match(response): None unless the frame starts with one digit and a
\* colon, else the groups code, await_id, answer_id and data.
codere_match(response) ==
  IF response.head \in {"0", "1", "2", "5", "6", "7", "8"}
  THEN [matched |-> TRUE, code |-> response.head, await_id |-> response.id,
        answer_id |-> response.ans, data |-> response.payload]
  ELSE [matched |-> FALSE, code |-> "", await_id |-> "", answer_id |-> "",
        data |-> ""]

\* if data: try: data = json.loads(data) / except: data = {"name": "error"}
json_loads(data) ==
  IF data = "" THEN [type |-> "str", name |-> "", args |-> "", second |-> ""]
  ELSE IF data = "garbage"
  THEN [type |-> "dict", name |-> "error", args |-> "", second |-> ""]
  ELSE IF data = "noName"
  THEN [type |-> "dict", name |-> "", args |-> "tree", second |-> ""]
  ELSE IF data = "array"
  THEN [type |-> "list", name |-> "", args |-> "", second |-> "tree"]
  ELSE IF data = "number"
  THEN [type |-> "int", name |-> "", args |-> "", second |-> ""]
  ELSE [type |-> "dict", name |-> data,
        args |-> IF data = "joinProjectResponse" THEN "tree" ELSE "",
        second |-> ""]

\* What one pass of the loop of run() does.
pass_ == [do |-> "continue", exc |-> "", about |-> "", value |-> ""]
break_ == [do |-> "break", exc |-> "", about |-> "", value |-> ""]
raise_(exc, about) == [do |-> "raise", exc |-> exc, about |-> about, value |-> ""]
\* project_infos = value: the loop ends, run() returns value
assign_(value) == [do |-> "return", exc |-> "", about |-> "", value |-> value]

\* await keep_alive(): no keep_alive is defined in get_project_infos, in the
\* module or among the builtins
keep_alive == raise_("NameError", "keep_alive")

\* await join_project(): no join_project is defined either
join_project == raise_("NameError", "join_project")

\* if response is None: break
on_closed == break_

\* codere.match(response).groups() when the frame does not match
on_no_match == raise_("AttributeError", "groups")

\* if code == "0": break
on_code_0 == break_

\* elif code == "1": pass
on_code_1 == pass_

\* elif code == "2": await keep_alive()
on_code_2 == keep_alive

\* elif code == "5": data["name"] is connectionAccepted, joinProjectResponse
\* or anything else
on_code_5(data) ==
  IF data.type # "dict" THEN raise_("TypeError", "data[name]")
  ELSE IF data.name = "" THEN raise_("KeyError", "name")
  ELSE IF data.name = "connectionAccepted" THEN join_project
  ELSE IF data.name = "joinProjectResponse" THEN assign_(data.args)
  ELSE raise_("Exception", "Unknown server request")

\* elif code == "6": request = requests[answer_id]; cmd = request["name"]
on_code_6(answer_id, data, reqs) ==
  IF answer_id \notin DOMAIN reqs THEN raise_("KeyError", "answer_id")
  ELSE IF reqs[answer_id].name = "joinProject"
  THEN (IF data.type = "list" THEN assign_(data.second)
        ELSE raise_("TypeError", "data[1]"))
  ELSE raise_("Exception", "Server responded to unknown request")

on_code_7_passes == pass_

\* elif code == "7": raise Exception("Error: Unauthorized, ...")
on_code_7 == raise_("Exception", "Unauthorized")

\* else: raise Exception("Server responsded with unknown code: ...")
on_unknown_code == raise_("Exception", "unknown code")

\* One pass of `while project_infos is None` on the message read.
loop_pass(response, reqs) ==
  IF response = Closed THEN on_closed
  ELSE LET g == codere_match(response)
           data == json_loads(g.data)
       IN IF ~g.matched THEN on_no_match
          ELSE IF g.code = "0" THEN on_code_0
          ELSE IF g.code = "1" THEN on_code_1
          ELSE IF g.code = "2" THEN on_code_2
          ELSE IF g.code = "5" THEN on_code_5(data)
          ELSE IF g.code = "6" THEN on_code_6(g.answer_id, data, reqs)
          ELSE IF g.code = "7" THEN on_code_7
          ELSE on_unknown_code

\* How get_project_infos has ended: not yet, by returning project_infos, or
\* by an exception.
NoOutcome == [kind |-> "pending", value |-> "", exc |-> "", about |-> ""]
Returned(value) == [kind |-> "returned", value |-> value, exc |-> "", about |-> ""]
Raised(exc, about) == [kind |-> "raised", value |-> "", exc |-> exc, about |-> about]

\* run() after a pass of the loop: `return project_infos` (None after a
\* break) or `except Exception as e: raise e`
outcome_of(r) ==
  IF r.do = "raise" THEN Raised(r.exc, r.about)
  ELSE IF r.do = "return" THEN Returned(r.value)
  ELSE Returned("None")

\* requests = {}
NoRequests == [k \in {} |-> [name |-> ""]]

\* ------------------------- upload_file and delete_file on project_infos

\* Bounds: the folders and the documents of the tree get_project_infos
\* returned, the folder segments of a file name, the uploads and deletions
\* of a run.
MaxFolders == 2
MaxDocs == 1
MaxSegs == 2
MaxOps == 2

\* Folder names and file names; "a" and "A" differ in case only.
Segs == {"a", "A", "b"}
Files == {"c", "d"}

\* str.lower()
lower(s) == IF s = "A" THEN "a" ELSE s

\* project_infos['rootFolder'][0]: its id
Root == 0

\* A file name "seg/.../file": file_name.split(PATH_SEP), [:-1] and [-1].
FileNames == [segs : SeqsUpTo(Segs, MaxSegs), file : Files]

\* The folders of fs listed in folder p ('folders' of p), in list order.
folders_of(fs, p) == {i \in DOMAIN fs : fs[i].parent = p}

first_match_case_sensitive(fs, p, seg) ==
  LET m == {i \in folders_of(fs, p) : fs[i].name = seg}
  IN IF m = {} THEN -1 ELSE CHOOSE i \in m : \A j \in m : i <= j

\* for remote_folder in current_overleaf_folder:
\*   if local_folder.lower() == remote_folder['name'].lower(): ... break
\* The first folder of p matching seg, or -1.
first_match(fs, p, seg) ==
  LET m == {i \in folders_of(fs, p) : lower(fs[i].name) = lower(seg)}
  IN IF m = {} THEN -1 ELSE CHOOSE i \in m : \A j \in m : i <= j

\* create_folder(project_id, parent_folder_id, folder_name): safe_post raises
\* for every status of 400 and above (raise_for_status), "folder already
\* exists" included, so the branches after `if r.ok` are never taken.
create_folder(answer) ==
  IF answer = "ok" THEN [raised |-> FALSE] ELSE [raised |-> TRUE]

descend_without_append(fs, folder_id, seg, answer) ==
  LET found == first_match(fs, folder_id, seg)
      call == [parent |-> folder_id, name |-> seg, answer |-> answer]
  IN IF found # -1
     THEN [folders |-> fs, folder_id |-> found, calls |-> <<>>,
           raised |-> FALSE]
     ELSE IF create_folder(answer).raised
     THEN [folders |-> fs, folder_id |-> folder_id, calls |-> <<call>>,
           raised |-> TRUE]
     ELSE [folders |-> fs, folder_id |-> Len(fs) + 1, calls |-> <<call>>,
           raised |-> FALSE]

\* upload_file, one pass of `for local_folder in local_folders`: the folder
\* is found in current_overleaf_folder, or create_folder is called, the new
\* folder appended to current_overleaf_folder and entered.
descend(fs, folder_id, seg, answer) ==
  LET found == first_match(fs, folder_id, seg)
      call == [parent |-> folder_id, name |-> seg, answer |-> answer]
  IN IF found # -1
     THEN [folders |-> fs, folder_id |-> found, calls |-> <<>>,
           raised |-> FALSE]
     ELSE IF create_folder(answer).raised
     THEN [folders |-> fs, folder_id |-> folder_id, calls |-> <<call>>,
           raised |-> TRUE]
     ELSE [folders |-> Append(fs, [name |-> seg, parent |-> folder_id]),
           folder_id |-> Len(fs) + 1, calls |-> <<call>>, raised |-> FALSE]

RECURSIVE resolve_folders(_, _, _, _, _)
\* upload_file, the loop over local_folders from folder_id on; answers[k] is
\* what the server answers to the creation of the k-th remaining segment.
resolve_folders(fs, folder_id, segs, answers, calls) ==
  IF segs = <<>>
  THEN [folders |-> fs, folder_id |-> folder_id, calls |-> calls,
        raised |-> FALSE]
  ELSE LET d == descend(fs, folder_id, Head(segs), Head(answers))
       IN IF d.raised
          THEN [folders |-> d.folders, folder_id |-> d.folder_id,
                calls |-> calls \o d.calls, raised |-> TRUE]
          ELSE resolve_folders(d.folders, d.folder_id, Tail(segs),
                               Tail(answers), calls \o d.calls)

\* next((v for v in folder['docs'] if v['name'] == name), None)
doc_in(ds, p, name) ==
  IF [parent |-> p, name |-> name] \in ds
  THEN [found |-> TRUE, parent |-> p, name |-> name]
  ELSE [found |-> FALSE, parent |-> -1, name |-> ""]

RECURSIVE find_doc(_, _, _, _, _, _)
\* delete_file, the loop over local_folders: `file` is set anew in every
\* folder that matches, and a segment that matches nothing changes neither
\* `file` nor current_overleaf_folder.
find_doc(fs, ds, p, segs, name, file) ==
  IF segs = <<>> THEN file
  ELSE LET found == first_match(fs, p, Head(segs))
       IN IF found # -1
          THEN find_doc(fs, ds, found, Tail(segs), name,
                        doc_in(ds, found, name))
          ELSE find_doc(fs, ds, p, Tail(segs), name, file)

\* delete_file: file = None, then the search in the folders or in the docs
\* of the root folder
file_to_delete(fs, ds, n) ==
  IF n.segs = <<>> THEN doc_in(ds, Root, n.file)
  ELSE find_doc(fs, ds, Root, n.segs, n.file, doc_in({}, Root, n.file))

\* The trees get_project_infos can return: every folder lies in the root
\* folder or in a folder listed before it.
Trees ==
  {fs \in SeqsUpTo([name : Segs, parent : 0..(MaxFolders - 1)], MaxFolders) :
     \A i \in DOMAIN fs : fs[i].parent < i}

\* ------------------------------------------------------------ state

\* The list each loop of sync_func iterates over.
LoopLists ==
  [from |-> files_from, deleted |-> deleted_files, create |-> newly_add_list,
   restore |-> restore_list, update |-> update_list, delete |-> delete_list]

InitWith(policies) ==
  /\ local \in BOOLEAN /\ remote \in BOOLEAN /\ no_fail \in BOOLEAN
  /\ ignored \in SUBSET Names
  /\ policy \in policies
  /\ localFs \in Sides
  \* contents are only ever compared for equality, name by name: the remote
  \* content of a name is called 1
  /\ remoteFs \in [Names -> {Absent, 1}]
  /\ mtime \in [Names -> {-1, 0, 1}]
  /\ \A n \in Names : localFs[n] = Absent => mtime[n] = 0
  /\ zip_file = NoFile
  /\ project_infos = "none"
  /\ pc = "get_project"
  /\ stage = "idle" /\ idx = 1
  /\ files_from = <<>> /\ deleted_files = <<>>
  /\ newly_add_list = <<>> /\ update_list = <<>> /\ delete_list = <<>>
  /\ restore_list = <<>> /\ not_restored_list = <<>>
  /\ not_sync_list = <<>> /\ synced_list = <<>>
  /\ run = 1
  /\ classified = <<>> /\ ops = <<>> /\ failed = {}
  /\ toAtStart = NoFile
  /\ origin = [localFs |-> localFs, remoteFs |-> remoteFs, mtime |-> mtime]
  /\ spc = "idle" /\ ws = "none" /\ peer = <<>> /\ received = <<>>
  /\ sent = <<>> /\ requests = NoRequests /\ outcome = NoOutcome
  /\ connects = 0
  /\ folders = <<>> /\ docs = {} /\ tlog = <<>> /\ tpc = "idle"

Init == InitWith({AskUser})

\* ------------------------------------------------------------- main

\* project = await execute_action(overleaf_client.get_project, ...); without
\* a project the run ends: ClickException, or project["id"] on a falsy value.
GetProject ==
  /\ pc = "get_project"
  /\ \E ok \in BOOLEAN :
       /\ pc' = IF ok THEN after_execute_action(ok, "get_project_infos")
                ELSE "aborted"
       /\ failed' = IF ok THEN failed ELSE failed \cup {<<run, "get_project">>}
  /\ UNCHANGED <<tree, session, flags,
                 sides, zip_file, project_infos, engine, lists, run,
                 classified, ops, toAtStart, origin>>

\* project_infos = await execute_action(overleaf_client.get_project_infos, ...)
GetProjectInfos ==
  /\ pc = "get_project_infos"
  /\ \E ok \in BOOLEAN :
       /\ project_infos' = IF ok THEN "tree" ELSE "failed"
       /\ pc' = after_execute_action(ok, "download_project")
       /\ failed' = IF ok THEN failed
                    ELSE failed \cup {<<run, "get_project_infos">>}
  /\ UNCHANGED <<tree, session, flags, sides, zip_file, engine, lists, run,
                 classified, ops, toAtStart, origin>>

\* zip_file = await execute_action(overleaf_client.download_project, ...);
\* without an archive the run ends: ClickException, or namelist() on False.
DownloadProject ==
  /\ pc = "download_project"
  /\ \E ok \in BOOLEAN :
       /\ zip_file' = IF ok THEN remoteFs ELSE zip_file
       /\ pc' = IF ok THEN after_execute_action(ok, R2L) ELSE "aborted"
       /\ failed' = IF ok THEN failed
                    ELSE failed \cup {<<run, "download_project">>}
  /\ UNCHANGED <<tree, session, flags, sides, project_infos, engine, lists, run,
                 classified, ops, toAtStart, origin>>

\* if remote or sync / if local or sync: not taken
SkipSync ==
  /\ pc \in Phases /\ stage = "idle"
  /\ ~phase_selected(pc)
  /\ pc' = next_pc(pc)
  /\ UNCHANGED <<tree, session, flags,
                 sides, zip_file, project_infos, engine, lists, run,
                 history>>

\* execute_action(sync_func, ...): the arguments are evaluated and the lists
\* of sync_func start empty.
StartSync ==
  /\ pc \in Phases /\ stage = "idle"
  /\ phase_selected(pc)
  /\ LET ff == SeqOf(files_from_of(Now, pc))
         df == SeqOf(deleted_files_of(Now, pc))
         L == [from |-> ff, deleted |-> df, create |-> <<>>, restore |-> <<>>,
               update |-> <<>>, delete |-> <<>>]
     IN /\ files_from' = ff
        /\ deleted_files' = df
        /\ stage' = stage_after("idle", L)
  /\ idx' = 1
  /\ newly_add_list' = <<>> /\ update_list' = <<>> /\ delete_list' = <<>>
  /\ restore_list' = <<>> /\ not_restored_list' = <<>>
  /\ not_sync_list' = <<>> /\ synced_list' = <<>>
  /\ toAtStart' = IF pc = R2L THEN localFs ELSE remoteFs
  /\ UNCHANGED <<tree, session, flags, sides, zip_file, project_infos, pc, run,
                 classified, ops, failed, origin>>

\* ---------------------------------------------------------- sync_func

AppendIf(cond, s, n) == IF cond THEN Append(s, n) ELSE s

\* for name in files_from: one iteration
ClassifyFrom ==
  /\ stage = "from"
  /\ LET n == files_from[idx]
         e == from_exists_in_to(Now, pc, n)
         eq == e /\ from_equal_to_to(Now, pc, n)
         nw == from_newer_than_to(Now, pc, n)
         asks == confirm_asked(e, eq, nw)
     IN \E confirmed \in (IF asks THEN confirm_answers ELSE {FALSE}) :
          LET into == lists_appended(e, eq, nw, confirmed)
              nal == AppendIf("new" \in into, newly_add_list, n)
              ul == AppendIf("update" \in into, update_list, n)
              L == [LoopLists EXCEPT !.create = nal, !.update = ul]
          IN /\ newly_add_list' = nal
             /\ update_list' = ul
             /\ synced_list' = AppendIf("synced" \in into, synced_list, n)
             /\ not_sync_list' = AppendIf("not_sync" \in into, not_sync_list, n)
             /\ classified' = Append(classified,
                  [run |-> run, phase |-> pc, name |-> n, exists |-> e,
                   equal |-> eq, newer |-> nw,
                   asked |-> IF asks THEN "confirm" ELSE "none",
                   answer |-> IF ~asks THEN "-"
                              ELSE IF confirmed THEN "y" ELSE "n",
                   into |-> into])
             /\ IF idx < Len(files_from)
                THEN idx' = idx + 1 /\ stage' = stage
                ELSE idx' = 1 /\ stage' = stage_after("from", L)
  /\ UNCHANGED <<tree, session, flags,
                 sides, zip_file, project_infos, pc, files_from,
                 deleted_files, delete_list, restore_list, not_restored_list,
                 run, ops, failed, toAtStart, origin>>

\* for name in deleted_files: one iteration
ClassifyDeleted ==
  /\ stage = "deleted"
  /\ LET n == deleted_files[idx]
     IN \E delete_choice \in prompt_answers :
          LET into == deletion_list(delete_choice)
              dl == AppendIf(into = "delete", delete_list, n)
              rl == AppendIf(into = "restore", restore_list, n)
              L == [LoopLists EXCEPT !.delete = dl, !.restore = rl]
          IN /\ delete_list' = dl
             /\ restore_list' = rl
             /\ not_restored_list' =
                  AppendIf(into = "not_restored", not_restored_list, n)
             /\ classified' = Append(classified,
                  [run |-> run, phase |-> pc, name |-> n, exists |-> TRUE,
                   equal |-> FALSE, newer |-> FALSE, asked |-> "prompt",
                   answer |-> delete_choice, into |-> {into}])
             /\ IF idx < Len(deleted_files)
                THEN idx' = idx + 1 /\ stage' = stage
                ELSE idx' = 1 /\ stage' = stage_after("deleted", L)
  /\ UNCHANGED <<tree, session, flags,
                 sides, zip_file, project_infos, pc, files_from,
                 deleted_files, newly_add_list, update_list, not_sync_list,
                 synced_list, run, ops, failed, toAtStart, origin>>

\* One iteration of an applying loop: the callback, and on an exception the
\* ClickException that ends sync_func and reaches execute_action.
Apply(st) ==
  /\ stage = st
  /\ LET n == LoopLists[st][idx]
         op == callback_of(st)
     IN \E res \in outcomes(pc, op) :
          LET S == apply_effect(Now, pc, op, n, res)
              nx == after_apply(res, st, idx, LoopLists)
          IN /\ localFs' = S.localFs
             /\ remoteFs' = S.remoteFs
             /\ mtime' = S.mtime
             /\ ops' = Append(ops,
                  [run |-> run, phase |-> pc, loop |-> st, op |-> op,
                   side |-> side_of(pc, op), name |-> n, res |-> res])
             /\ stage' = nx.stage
             /\ idx' = nx.idx
             /\ pc' = IF nx.raised THEN after_execute_action(FALSE, next_pc(pc))
                      ELSE pc
             /\ failed' = IF nx.raised THEN failed \cup {<<run, pc>>} ELSE failed
  /\ UNCHANGED <<tree, session, flags,
                 zip_file, project_infos, files_from, deleted_files,
                 lists, run, classified, toAtStart, origin>>

\* for name in newly_add_list: create_file_at_to(name)
CreateAtTo == Apply("create")
\* for name in restore_list: create_file_at_from(name)
RestoreAtFrom == Apply("restore")
\* for name in update_list: create_file_at_to(name)
UpdateAtTo == Apply("update")
\* for name in delete_list: delete_file_at_to(name)
DeleteAtTo == Apply("delete")

\* The report of the lists, return True, and execute_action's success.
SyncReturn ==
  /\ stage = "report"
  /\ stage' = "idle"
  /\ pc' = after_execute_action(TRUE, next_pc(pc))
  /\ UNCHANGED <<tree, session, flags, sides, zip_file, project_infos, files_from,
                 deleted_files, idx, lists, run, history>>

Next ==
  \/ GetProject \/ GetProjectInfos \/ DownloadProject
  \/ SkipSync \/ StartSync
  \/ ClassifyFrom \/ ClassifyDeleted
  \/ CreateAtTo \/ RestoreAtFrom \/ UpdateAtTo \/ DeleteAtTo
  \/ SyncReturn

\* One invocation of the command.
Spec == Init /\ [][Next]_vars

\* ------------------------------------------------ invoking main again

\* The command is invoked again: a new process, a new download.
Restart ==
  /\ run < MaxRuns
  /\ run' = run + 1
  /\ pc' = "get_project"
  /\ project_infos' = "none"
  /\ zip_file' = NoFile
  /\ UNCHANGED <<tree, session, flags, sides, engine, lists, history>>

\* ... after a run in which nothing failed
RunAgain == pc = "done" /\ failed = {} /\ Restart

\* ... after a run in which a sync failed
Retry ==
  /\ pc \in {"done", "aborted"}
  /\ \E p \in Phases : <<run, p>> \in failed
  /\ Restart

NextAgain == Next \/ RunAgain
SpecAgain == Init /\ [][NextAgain]_vars

InitRetry == InitWith(Scripted)
NextRetry == Next \/ Retry
SpecRetry == InitRetry /\ [][NextRetry]_vars

\* --------------------------------------------------- get_project_infos

\* main has queried the project and calls get_project_infos; the server
\* will deliver the frames of peer, then nothing more.
InitSession ==
  /\ local = FALSE /\ remote = FALSE /\ no_fail \in BOOLEAN
  /\ ignored = {} /\ policy = AskUser
  /\ localFs = NoFile /\ remoteFs = NoFile
  /\ mtime = [n \in Names |-> 0]
  /\ zip_file = NoFile
  /\ project_infos = "none"
  /\ pc = "get_project_infos"
  /\ stage = "idle" /\ idx = 1
  /\ files_from = <<>> /\ deleted_files = <<>>
  /\ newly_add_list = <<>> /\ update_list = <<>> /\ delete_list = <<>>
  /\ restore_list = <<>> /\ not_restored_list = <<>>
  /\ not_sync_list = <<>> /\ synced_list = <<>>
  /\ run = 1
  /\ classified = <<>> /\ ops = <<>> /\ failed = {}
  /\ toAtStart = NoFile
  /\ origin = [localFs |-> localFs, remoteFs |-> remoteFs, mtime |-> mtime]
  /\ spc = "idle" /\ ws = "none"
  /\ peer \in SeqsUpTo(Frames \cup {Closed}, MaxFrames)
  /\ received = <<>>
  /\ sent = <<>> /\ requests = NoRequests /\ outcome = NoOutcome
  /\ connects = 0
  /\ folders = <<>> /\ docs = {} /\ tlog = <<>> /\ tpc = "idle"

\* ws = await connect(): the request for the channel and the websocket
\* handshake succeed, or one of them raises.
Connect ==
  /\ pc = "get_project_infos" /\ spc = "idle"
  /\ connects' = connects + 1
  /\ \E ok \in BOOLEAN :
       IF ok THEN /\ ws' = "open" /\ spc' = "read"
                  /\ outcome' = outcome
       ELSE /\ ws' = ws /\ spc' = "ended"
            /\ outcome' = Raised("HTTPError", "connect")
  /\ UNCHANGED <<tree, flags, sides, zip_file, project_infos, pc, engine, lists,
                 run, history, peer, received, sent, requests>>

\* response = await ws.read_message() and the rest of the pass of the loop:
\* the session reads on, or run() is left.
ReadMessage ==
  /\ spc = "read" /\ peer # <<>>
  /\ LET response == Head(peer)
         r == loop_pass(response, requests)
     IN /\ peer' = Tail(peer)
        /\ received' = Append(received, response)
        /\ ws' = IF response = Closed THEN "closed_by_peer" ELSE ws
        /\ IF r.do = "continue"
           THEN spc' = "read" /\ outcome' = outcome
           ELSE spc' = "ended" /\ outcome' = outcome_of(r)
  /\ UNCHANGED <<tree, flags, sides, zip_file, project_infos, pc, engine, lists,
                 run, history, sent, requests, connects>>

\* execute_action after get_project_infos: success is what it returned.
ReturnProjectInfos ==
  /\ pc = "get_project_infos" /\ spc = "ended"
  /\ LET ok == outcome.kind = "returned" /\ outcome.value = "tree"
     IN /\ project_infos' = IF ok THEN "tree" ELSE "failed"
        /\ pc' = after_execute_action(ok, "download_project")
        /\ failed' = IF ok THEN failed
                     ELSE failed \cup {<<run, "get_project_infos">>}
  /\ UNCHANGED <<tree, session, flags, sides, zip_file, engine, lists, run,
                 classified, ops, toAtStart, origin>>

NextSession == Connect \/ ReadMessage \/ ReturnProjectInfos

\* The step of main that fetches the project details.
SpecSession == InitSession /\ [][NextSession]_vars

\* ... in which connect(), the loop and execute_action go on while they can;
\* nothing obliges the server to deliver a frame.
SpecSessionFair == SpecSession /\ WF_vars(NextSession)

\* ------------------------------- the uploads and remote deletions of a run

\* The applying loops of the local-to-remote sync are about to call
\* upload_file and delete_file with project_infos, the tree that
\* get_project_infos returned.
InitTree ==
  /\ local = TRUE /\ remote = FALSE /\ no_fail = FALSE
  /\ ignored = {} /\ policy = AskUser
  /\ localFs = NoFile /\ remoteFs = NoFile
  /\ mtime = [n \in Names |-> 0]
  /\ zip_file = NoFile
  /\ project_infos = "tree"
  /\ pc = L2R
  /\ stage = "idle" /\ idx = 1
  /\ files_from = <<>> /\ deleted_files = <<>>
  /\ newly_add_list = <<>> /\ update_list = <<>> /\ delete_list = <<>>
  /\ restore_list = <<>> /\ not_restored_list = <<>>
  /\ not_sync_list = <<>> /\ synced_list = <<>>
  /\ run = 1
  /\ classified = <<>> /\ ops = <<>> /\ failed = {}
  /\ toAtStart = NoFile
  /\ origin = [localFs |-> localFs, remoteFs |-> remoteFs, mtime |-> mtime]
  /\ spc = "ended" /\ ws = "open" /\ peer = <<>> /\ received = <<>>
  /\ sent = <<>> /\ requests = NoRequests /\ outcome = Returned("tree")
  /\ connects = 1
  /\ folders \in Trees
  /\ docs \in {ds \in SUBSET [parent : 0..Len(folders), name : Files] :
                 Cardinality(ds) <= MaxDocs}
  /\ tlog = <<>> /\ tpc = "run"

\* create_file_at_to(name) of the local-to-remote sync: upload_file resolves
\* the folders of the name, creating those it does not find, and posts the
\* file; an exception ends sync_func.
UploadToTree ==
  /\ tpc = "run" /\ Len(tlog) < MaxOps
  /\ \A k \in DOMAIN tlog : tlog[k].op = "upload"
  /\ \E n \in FileNames, post \in {"ok", "raised"},
        answers \in [1..MaxSegs -> {"ok", "exists", "raised"}] :
       LET r == resolve_folders(folders, Root, n.segs, answers, <<>>)
           res == IF r.raised THEN "raised" ELSE post
       IN /\ folders' = r.folders
          /\ tlog' = Append(tlog,
               [op |-> "upload", name |-> n, before |-> Len(folders),
                calls |-> r.calls, folder_id |-> r.folder_id,
                posted |-> ~r.raised, doc |-> doc_in({}, Root, n.file),
                res |-> res])
          /\ tpc' = IF res = "raised" THEN "aborted" ELSE tpc
  /\ UNCHANGED <<docs, session, flags, sides, zip_file, project_infos, pc,
                 engine, lists, run, history>>

\* delete_file_at_to(name) of the local-to-remote sync: delete_file looks
\* for the document, returns False when it has none, else sends the delete
\* request; an exception ends sync_func.
DeleteFromTree ==
  /\ tpc = "run" /\ Len(tlog) < MaxOps
  /\ \E n \in FileNames, request \in {"ok", "raised"} :
       LET file == file_to_delete(folders, docs, n)
           res == IF file.found THEN request ELSE "noop"
       IN /\ tlog' = Append(tlog,
               [op |-> "delete", name |-> n, before |-> Len(folders),
                calls |-> <<>>, folder_id |-> -1, posted |-> file.found,
                doc |-> file, res |-> res])
          /\ tpc' = IF res = "raised" THEN "aborted" ELSE tpc
  /\ UNCHANGED <<folders, docs, session, flags, sides, zip_file,
                 project_infos, pc, engine, lists, run, history>>

NextTree == UploadToTree \/ DeleteFromTree

\* The remote operations of one sync against the tree of project_infos.
SpecTree == InitTree /\ [][NextTree]_vars

\* ------------------------------------------------------------ claims

Occ(s, n) == Cardinality({i \in 1..Len(s) : s[i] = n})
FromOcc(n) ==
  Occ(newly_add_list, n) + Occ(update_list, n) + Occ(synced_list, n)
    + Occ(not_sync_list, n)
DelOcc(n) ==
  Occ(delete_list, n) + Occ(restore_list, n) + Occ(not_restored_list, n)

Classified == {classified[i] : i \in DOMAIN classified}
Ops == {ops[i] : i \in DOMAIN ops}
SameRun(a, b) == a.run = b.run /\ a.phase = b.phase
\* the engine run in progress
Current(a) == stage # "idle" /\ a.run = run /\ a.phase = pc
ToSide == IF pc = R2L THEN localFs ELSE remoteFs

\* C1: in an engine run every name of files_from is appended to exactly one
\* of newly_add_list (CREATE), update_list (UPDATE), synced_list (SYNCED),
\* not_sync_list (SKIPPED) and to no deletion list, and every name of
\* deleted_files to exactly one of delete_list (DELETE), restore_list
\* (RESTORE), not_restored_list (IGNORED) and to no other list; while a loop
\* runs, exactly the names before idx are classified.
Completeness ==
  /\ \A i \in DOMAIN files_from :
       /\ FromOcc(files_from[i]) = IF stage = "from" /\ i >= idx THEN 0 ELSE 1
       /\ DelOcc(files_from[i]) = 0
  /\ \A i \in DOMAIN deleted_files :
       /\ DelOcc(deleted_files[i]) =
            IF stage = "from" \/ (stage = "deleted" /\ i >= idx) THEN 0 ELSE 1
       /\ FromOcc(deleted_files[i]) = 0
  /\ \A c \in Classified : Cardinality(c.into) = 1

CompletenessWitness ==
  /\ stage = "report"
  /\ Len(not_sync_list) = 1 /\ Len(restore_list) = 1
  /\ Len(files_from) + Len(deleted_files) = NumNames

\* C2: a name that exists on "to" with identical content is classified SYNCED
\* (whatever from_newer_than_to gives) and no operation is applied to it in
\* that engine run.
EqualityPrecedence ==
  \A c \in Classified :
    (c.asked # "prompt" /\ c.exists /\ c.equal) =>
      /\ c.into = {"synced"}
      /\ \A o \in Ops : ~(SameRun(o, c) /\ o.name = c.name)
      /\ Current(c) =>
           Occ(synced_list, c.name) = 1 /\ Occ(update_list, c.name) = 0

EqualityPrecedenceWitness ==
  /\ pc = "done"
  /\ \E c \in Classified :
       c.asked # "prompt" /\ c.exists /\ c.equal /\ c.newer
  /\ Ops # {}

\* C3: a name that exists on "to" with differing content, "from" not newer
\* and the overwrite declined is classified SKIPPED; the engine run applies no
\* operation to it and leaves it on "to" as it was.
StaleGuard ==
  \A c \in Classified :
    (c.asked # "prompt" /\ c.exists /\ ~c.equal /\ ~c.newer /\ c.answer = "n") =>
      /\ c.into = {"not_sync"}
      /\ \A o \in Ops : ~(SameRun(o, c) /\ o.name = c.name)
      /\ Current(c) =>
           /\ ToSide[c.name] = toAtStart[c.name]
           /\ Occ(not_sync_list, c.name) = 1
           /\ Occ(update_list, c.name) = 0

StaleGuardWitness ==
  /\ stage = "report"
  /\ \E c \in Classified : Current(c) /\ c.asked = "confirm" /\ c.answer = "n"
  /\ \E o \in Ops : Current(o) /\ o.res = "ok"

GroupRank(loop) ==
  IF loop = "create" THEN 1
  ELSE IF loop = "restore" THEN 2
  ELSE IF loop = "update" THEN 3
  ELSE 4

\* C4: the operations of an engine run are applied in the order every CREATE
\* on "to", every RESTORE on "from", every UPDATE on "to", every DELETE on
\* "to": an operation is preceded by no operation of a later group, and by
\* the operations of every name of every earlier group.
ApplicationOrder ==
  /\ \A i, j \in DOMAIN ops :
       (i < j /\ SameRun(ops[i], ops[j])) =>
         GroupRank(ops[i].loop) <= GroupRank(ops[j].loop)
  /\ \A j \in DOMAIN ops :
       Current(ops[j]) =>
         \A g \in {"create", "restore", "update", "delete"} :
           GroupRank(g) < GroupRank(ops[j].loop) =>
             \A k \in DOMAIN LoopLists[g] :
               \E i \in 1..(j - 1) :
                 /\ SameRun(ops[i], ops[j])
                 /\ ops[i].loop = g
                 /\ ops[i].name = LoopLists[g][k]

ApplicationOrderWitness ==
  \E i, j \in DOMAIN ops :
    /\ i < j /\ SameRun(ops[i], ops[j])
    /\ ops[i].loop = "restore" /\ ops[j].loop = "update"

\* What an applied operation did is still there.
EffectStands(o) ==
  IF o.op = "delete_file_at_to"
  THEN (IF o.phase = R2L THEN localFs[o.name] = Absent
        ELSE remoteFs[o.name] = Absent)
  ELSE IF o.side = "local" THEN localFs[o.name] = zip_file[o.name]
       ELSE remoteFs[o.name] = localFs[o.name]

MetadataFailureAborts ==
  <<run, "get_project_infos">> \in failed =>
    /\ \A c \in Classified : c.run # run
    /\ \A o \in Ops : o.run # run

\* C7: in mirror mode deleted_files is empty in both phases, nothing is
\* classified DELETE or RESTORE, the deletion prompt is never shown and
\* neither delete_file_at_to nor create_file_at_from is called.
MirrorNoDeletion ==
  sync =>
    /\ deleted_files = <<>> /\ delete_list = <<>> /\ restore_list = <<>>
    /\ not_restored_list = <<>>
    /\ \A c \in Classified :
         /\ c.asked # "prompt"
         /\ c.into \cap {"delete", "restore", "not_restored"} = {}
    /\ \A o \in Ops : o.op = "create_file_at_to"

MirrorNoDeletionWitness ==
  /\ sync /\ pc = "done" /\ failed = {}
  /\ \E n, m \in Names :
       /\ origin.localFs[n] # Absent /\ origin.remoteFs[n] = Absent
       /\ origin.localFs[m] = Absent /\ origin.remoteFs[m] # Absent
       /\ m \in ignored
  /\ Ops # {}

\* name n was classified SKIPPED in phase p of this run
Skipped(p, n) ==
  \E c \in Classified :
    c.run = run /\ c.phase = p /\ c.name = n /\ c.into = {"not_sync"}

\* a mirror-mode run in which nothing failed has ended
MirrorDone == sync /\ pc = "done" /\ \A f \in failed : f[1] # run

\* C8 as stated: after a failure-free mirror-mode run every name of the
\* remote snapshot or of the keep list has the same content on both sides,
\* unless it was classified SKIPPED in both phases.
MirrorConsistent ==
  MirrorDone =>
    \A n \in namelist(zip_file) \cup olignore_keep_list(localFs, ignored) :
      localFs[n] = remoteFs[n] \/ (Skipped(R2L, n) /\ Skipped(L2R, n))

\* C8, amended: ... unless it was classified SKIPPED in the remote-to-local
\* phase and, in the local-to-remote phase, was classified SKIPPED again or
\* was not enumerated because the keep list leaves it out.
MirrorConsistentKept ==
  MirrorDone =>
    \A n \in namelist(zip_file) \cup olignore_keep_list(localFs, ignored) :
      \/ localFs[n] = remoteFs[n]
      \/ /\ Skipped(R2L, n)
         /\ Skipped(L2R, n) \/ n \notin olignore_keep_list(localFs, ignored)

MirrorConsistentKeptWitness ==
  /\ MirrorDone
  /\ \E n \in Names : Skipped(R2L, n) /\ n \in ignored /\ localFs[n] # remoteFs[n]
  /\ \E o \in Ops : o.phase = L2R /\ o.loop = "create" /\ o.res = "ok"

\* --------------------------------------- a run in which nothing fails

RECURSIVE ApplyAll(_, _, _, _)
\* An applying loop of sync_func over the list names, every callback succeeding.
ApplyAll(S, p, op, names) ==
  IF names = <<>> THEN S
  ELSE ApplyAll(apply_effect(S, p, op, Head(names), "ok"), p, op, Tail(names))

\* sync_func of phase p from the files S, answered by the scripted resolver.
FailureFreeSync(S, p) ==
  LET ff == SeqOf(files_from_of(S, p))
      df == SeqOf(deleted_files_of(S, p))
      into(n) ==
        LET e == from_exists_in_to(S, p, n)
        IN lists_appended(e, e /\ from_equal_to_to(S, p, n),
                          from_newer_than_to(S, p, n), policy.overwrite)
      IsNew(n) == "new" \in into(n)
      IsUpdate(n) == "update" \in into(n)
      choice == deletion_list(policy.deletion)
      S1 == ApplyAll(S, p, "create_file_at_to", SelectSeq(ff, IsNew))
      S2 == ApplyAll(S1, p, "create_file_at_from",
                     IF choice = "restore" THEN df ELSE <<>>)
      S3 == ApplyAll(S2, p, "create_file_at_to", SelectSeq(ff, IsUpdate))
  IN ApplyAll(S3, p, "delete_file_at_to", IF choice = "delete" THEN df ELSE <<>>)

\* main from the files O: the download, then the selected syncs.
FailureFreeRun(O) ==
  LET S0 == [localFs |-> O.localFs, remoteFs |-> O.remoteFs,
             mtime |-> O.mtime, zip |-> O.remoteFs]
      S1 == IF phase_selected(R2L) THEN FailureFreeSync(S0, R2L) ELSE S0
  IN IF phase_selected(L2R) THEN FailureFreeSync(S1, L2R) ELSE S1

\* The run of the actions in which nothing fails is FailureFreeRun.
FailureFreeRunIsTheRun ==
  (policy.scripted /\ run = 1 /\ pc = "done" /\ failed = {}
     /\ \A o \in Ops : o.res = "ok") =>
    LET F == FailureFreeRun(origin)
    IN localFs = F.localFs /\ remoteFs = F.remoteFs /\ mtime = F.mtime

\* A sync of run r was left by an exception after an operation of it had
\* been applied.
AbortedAfterProgress(r) ==
  \E i, j \in DOMAIN ops :
    /\ i < j /\ ops[i].run = r /\ SameRun(ops[i], ops[j])
    /\ ops[i].res = "ok" /\ ops[j].res = "raised"

\* C10: when an engine run was aborted by a failure after some operations
\* were applied, running again with the same resolver answers and no further
\* failure ends with both sides as one failure-free run from the original
\* files would have left them.
RetryConverges ==
  (/\ policy.scripted /\ run = 2 /\ pc = "done"
   /\ AbortedAfterProgress(1)
   /\ \A f \in failed : f[1] = 1
   /\ \A o \in Ops : o.run = 2 => o.res = "ok") =>
    LET F == FailureFreeRun(origin)
    IN localFs = F.localFs /\ remoteFs = F.remoteFs

\* ----------------------------------------------- two runs in a row

\* the classification of name n in phase p of run r: the list it went to
ClassOf(r, p, n) ==
  UNION {c.into : c \in {d \in Classified :
                           d.run = r /\ d.phase = p /\ d.name = n}}

\* nothing has failed, in the first run or since
NothingFailed == failed = {}

\* C9 as stated: the second of two consecutive runs classifies every name
\* SYNCED or IGNORED.
SecondRunAllSynced ==
  NothingFailed =>
    \A c \in Classified : c.run > 1 => c.into \subseteq {"synced", "not_restored"}

\* C9, amended: on the second of two consecutive failure-free runs no name is
\* classified CREATE; a name is classified UPDATE or SKIPPED only if the first
\* run classified it SKIPPED in the same phase, and DELETE or RESTORE only if
\* the first run asked the deletion question for it in the same phase.
SecondRunOnlyRepeats ==
  NothingFailed =>
    \A c \in Classified :
      c.run > 1 =>
        /\ "new" \notin c.into
        /\ c.into \cap {"update", "not_sync"} # {} =>
             ClassOf(c.run - 1, c.phase, c.name) = {"not_sync"}
        /\ c.into \cap {"delete", "restore"} # {} =>
             ClassOf(c.run - 1, c.phase, c.name)
               \cap {"delete", "restore", "not_restored"} # {}

SecondRunOnlyRepeatsWitness ==
  /\ run = 2 /\ pc = "done" /\ NothingFailed
  /\ \E c \in Classified : c.run = 2 /\ c.into = {"update"}
  /\ \E c \in Classified : c.run = 2 /\ c.into = {"synced"}
                            /\ ClassOf(1, c.phase, c.name) = {"new"}

\* ------------------------------------------- the deletion decisions

\* the operations the engine run of classification c applied to its name
OpsFor(c) == {i \in DOMAIN ops : SameRun(ops[i], c) /\ ops[i].name = c.name}

\* the engine run of classification c is over
Over(c) == ~Current(c)

\* the engine run of classification c went through all its loops
Finished(c) ==
  \/ Current(c) /\ stage = "report"
  \/ ~Current(c) /\ <<c.run, c.phase>> \notin failed

\* the "to" and the "from" of a phase
ToOf(p) == IF p = R2L THEN "local" ELSE "remote"
FromOf(p) == IF p = R2L THEN "remote" ELSE "local"

\* C11 as stated: once the engine run is over, a name answered 'd' has had
\* exactly one delete_file_at_to on "to" and nothing else, a name answered
\* 'r' exactly one create_file_at_from on "from" and nothing else, a name
\* answered 'i' no operation.
DeletionDecisionApplied ==
  \A c \in Classified :
    (c.asked = "prompt" /\ Over(c)) =>
      /\ c.answer = "d" =>
           /\ Cardinality(OpsFor(c)) = 1
           /\ \A i \in OpsFor(c) :
                ops[i].op = "delete_file_at_to" /\ ops[i].side = ToOf(c.phase)
      /\ c.answer = "r" =>
           /\ Cardinality(OpsFor(c)) = 1
           /\ \A i \in OpsFor(c) :
                ops[i].op = "create_file_at_from" /\ ops[i].side = FromOf(c.phase)
      /\ c.answer = "i" => OpsFor(c) = {}

\* C11, amended: a name answered 'd' gets no operation but delete_file_at_to
\* on "to", a name answered 'r' none but create_file_at_from on "from", each
\* at most once, and exactly once when the engine run went through all its
\* loops (no operation raised before); a name answered 'i' gets no operation.
DeletionDecisionAppliedUnlessAborted ==
  \A c \in Classified :
    c.asked = "prompt" =>
      /\ c.answer = "d" =>
           /\ Cardinality(OpsFor(c)) <= 1
           /\ Finished(c) => Cardinality(OpsFor(c)) = 1
           /\ \A i \in OpsFor(c) :
                ops[i].op = "delete_file_at_to" /\ ops[i].side = ToOf(c.phase)
      /\ c.answer = "r" =>
           /\ Cardinality(OpsFor(c)) <= 1
           /\ Finished(c) => Cardinality(OpsFor(c)) = 1
           /\ \A i \in OpsFor(c) :
                ops[i].op = "create_file_at_from" /\ ops[i].side = FromOf(c.phase)
      /\ c.answer = "i" => OpsFor(c) = {}

\* Both syncs went through: one name was answered 'd' and deleted on "to",
\* another was answered 'r' and created on "from".
DeletionDecisionAppliedUnlessAbortedWitness ==
  /\ pc = "done" /\ failed = {}
  /\ \E c, d \in Classified :
       /\ c.asked = "prompt" /\ c.answer = "d" /\ OpsFor(c) # {}
       /\ d.asked = "prompt" /\ d.answer = "r" /\ OpsFor(d) # {}
       /\ SameRun(c, d)

\* --------------------------------------------------- the default mode

\* C12: without no_fail a step that fails ends the run: main is left, and
\* the run has nothing of a later step: after a failed get_project_infos or
\* download_project no classification and no operation, after a failed
\* remote-to-local sync no classification and no operation of the
\* local-to-remote phase.
DefaultModeFailsRun ==
  ~no_fail =>
    \A f \in failed :
      f[1] = run =>
        /\ pc = "aborted" /\ stage = "idle"
        /\ f[2] \in {"get_project", "get_project_infos", "download_project"} =>
             /\ \A c \in Classified : c.run # run
             /\ \A o \in Ops : o.run # run
        /\ f[2] = R2L =>
             /\ \A c \in Classified : ~(c.run = run /\ c.phase = L2R)
             /\ \A o \in Ops : ~(o.run = run /\ o.phase = L2R)

\* The remote-to-local sync failed after an operation, with the
\* local-to-remote sync selected and a local file it would have enumerated.
DefaultModeFailsRunWitness ==
  /\ ~no_fail /\ local /\ remote
  /\ <<run, R2L>> \in failed
  /\ \E o \in Ops : o.phase = R2L /\ o.res = "ok"
  /\ olignore_keep_list(localFs, ignored) # {}

\* ------------------------------------------------------- the session

\* the frames of the session, delivered or not
script == received \o peer
\* frame f is the server event called name
IsEvent(f, name) == f # Closed /\ f.head = "5" /\ f.payload = name
\* frame f is a reply to request k carrying [null, {...}]
IsReplyTo(f, k) ==
  f # Closed /\ f.head = "6" /\ f.ans = k /\ f.payload = "array"
\* the frames written that carry command name
Sent(name) == {k \in DOMAIN sent : sent[k].name = name}
\* the places of received where the frame satisfies Is
Got(Is(_)) == {i \in DOMAIN received : Is(received[i])}
\* the session is waiting for the next frame
Reading == spc = "read" /\ outcome = NoOutcome
\* the session has ended with the project details
EndedWithMetadata == spc = "ended" /\ outcome = Returned("tree")

\* C13: for every connectionAccepted event received one joinProject command
\* has been written and is pending in requests under its id, and after the
\* event the session has no result and reads on.
ConnectionAcceptedSendsJoin ==
  LET IsAccepted(f) == IsEvent(f, "connectionAccepted")
  IN /\ Cardinality(Sent("joinProject")) = Cardinality(Got(IsAccepted))
     /\ \A k \in Sent("joinProject") :
          /\ sent[k].id \in DOMAIN requests
          /\ requests[sent[k].id].name = "joinProject"
     /\ (received # <<>> /\ IsAccepted(received[Len(received)])) => Reading

\* C14: a session in which the server accepts the connection and then
\* replies to request 1, the join request, with [null, {...}] ends by
\* returning the second element of the reply.
CorrelatedReplyYieldsMetadata ==
  (/\ Len(script) = 2
   /\ IsEvent(script[1], "connectionAccepted")
   /\ IsReplyTo(script[2], "1")
   /\ ws = "open" /\ spc = "ended") =>
    EndedWithMetadata

\* C15: a session writes at most one command, and a session that ends with
\* the project details has written exactly one, the join request.
OneCommandPerSession ==
  /\ Len(sent) <= 1
  /\ EndedWithMetadata => Len(sent) = 1 /\ Sent("joinProject") = {1}

\* C16: a frame of code 7 is the last frame the session reads: run() is left
\* by the exception that says Unauthorized, get_project_infos gives no
\* project details, and connect() is not called again.
UnauthorizedEndsSession ==
  \A i \in DOMAIN received :
    received[i].head = "7" =>
      /\ i = Len(received)
      /\ spc = "ended"
      /\ outcome = Raised("Exception", "Unauthorized")
      /\ project_infos # "tree"
      /\ connects = 1

\* A "1::" frame, then a frame of code 7; with no_fail main went on to the
\* download.
UnauthorizedEndsSessionWitness ==
  /\ Len(received) = 2
  /\ received[1].head = "1" /\ received[2].head = "7"
  /\ pc = "download_project" /\ project_infos = "failed"

\* frame f is none of the frames the session expects
Unexpected(f) ==
  /\ f # Closed
  /\ \/ f.head \in {"0", "8"}
     \/ IsEvent(f, "otherEvent")
     \/ f.head = "6" /\ f.ans \notin DOMAIN requests

\* C17: after an unexpected frame (code 0, an unknown code, an event that is
\* neither connectionAccepted nor joinProjectResponse, a reply to no pending
\* request) the session has ended with a failure, which is not the one of
\* code 7, and gives no project details.
UnexpectedFrameIsProtocolViolation ==
  (received # <<>> /\ Unexpected(received[Len(received)])) =>
    /\ spc = "ended"
    /\ outcome.kind = "raised"
    /\ outcome # Raised("Exception", "Unauthorized")
    /\ project_infos # "tree"

\* C18: for every frame of code 2 received one keepalive echo has been
\* written, and after the frame the session has no result and reads on.
KeepaliveEchoed ==
  LET IsKeepalive(f) == f # Closed /\ f.head = "2"
  IN /\ Cardinality(Sent("keepalive")) = Cardinality(Got(IsKeepalive))
     /\ (received # <<>> /\ IsKeepalive(received[Len(received)])) => Reading

\* C19: every session ends, whatever the server delivers or fails to
\* deliver.
SessionTerminates == <>(spc = "ended")

\* C20: when the session has ended, the connection it opened has been
\* closed by the client.
ConnectionClosedAtEnd ==
  (spc = "ended" /\ ws # "none") => ws = "closed_by_client"

\* ------------------------------------------- the overwrite question

\* C24: in the first loop click.confirm is called for a name exactly when the
\* name exists on "to", the contents differ and "from" is not newer; a name
\* that differs with "from" newer goes to update_list unasked, and so does a
\* name whose overwrite was confirmed.
OverwriteConfirmation ==
  \A c \in Classified :
    c.asked # "prompt" =>
      /\ c.asked = "confirm" <=> (c.exists /\ ~c.equal /\ ~c.newer)
      /\ (c.exists /\ ~c.equal /\ c.newer) =>
           c.asked = "none" /\ c.into = {"update"}
      /\ (c.asked = "confirm" /\ c.answer = "y") => c.into = {"update"}

\* One name was updated because "from" is newer, another after the overwrite
\* was confirmed, and a third question was declined.
OverwriteConfirmationWitness ==
  /\ pc = "done"
  /\ \E c, d, e \in Classified :
       /\ c.exists /\ ~c.equal /\ c.newer /\ c.into = {"update"}
       /\ d.asked = "confirm" /\ d.answer = "y" /\ d.into = {"update"}
       /\ e.asked = "confirm" /\ e.answer = "n"

\* --------------------------------------- questions before operations

\* an operation of the engine run in progress has been applied
OperationApplied == \E o \in Ops : o.run = run /\ o.phase = pc

\* C25: in an engine run the classifying loops are over, every name of
\* files_from and deleted_files classified, before the first operation is
\* applied, and no name is classified (no question asked) once an operation
\* of that run has been applied.
QuestionsBeforeOperations ==
  /\ [](OperationApplied =>
          /\ stage \notin {"from", "deleted"}
          /\ stage # "idle" =>
               /\ \A k \in DOMAIN files_from :
                    \E c \in Classified :
                      Current(c) /\ c.name = files_from[k] /\ c.asked # "prompt"
               /\ \A k \in DOMAIN deleted_files :
                    \E c \in Classified :
                      Current(c) /\ c.name = deleted_files[k]
                        /\ c.asked = "prompt")
  /\ [][classified' # classified => ~OperationApplied]_vars

\* An engine run at its report: an overwrite question and a deletion question
\* were asked, then operations were applied.
QuestionsBeforeOperationsWitness ==
  /\ stage = "report"
  /\ \E c, d \in Classified :
       /\ Current(c) /\ c.asked = "confirm"
       /\ Current(d) /\ d.asked = "prompt" /\ d.answer # "i"
  /\ Cardinality({i \in DOMAIN ops : Current(ops[i])}) >= 2

\* ---------------------------------------------- the tree of folders

\* the uploads and the deletions of the run
Uploads == {k \in DOMAIN tlog : tlog[k].op = "upload"}
Deletions == {k \in DOMAIN tlog : tlog[k].op = "delete"}
\* the folders of the tree when operation k was over
TreeAfter(k) ==
  SubSeq(folders, 1, IF k < Len(tlog) THEN tlog[k + 1].before ELSE Len(folders))
\* name s is name t but for the case
SameName(s, t) == lower(s) = lower(t)

RECURSIVE Reached(_, _, _)
\* The folders of fs that the segments segs lead through from folder p, each
\* the first of its folder matching its segment, as far as they exist.
Reached(fs, p, segs) ==
  IF segs = <<>> THEN <<>>
  ELSE LET m == {i \in DOMAIN fs :
                   fs[i].parent = p /\ SameName(fs[i].name, Head(segs))}
       IN IF m = {} THEN <<>>
          ELSE LET f == CHOOSE i \in m : \A j \in m : i <= j
               IN <<f>> \o Reached(fs, f, Tail(segs))

RECURSIVE PathOf(_, _)
\* The names of the folders from the root folder down to folder id.
PathOf(fs, id) ==
  IF id = Root THEN <<>> ELSE Append(PathOf(fs, fs[id].parent), fs[id].name)

\* the path p is the segments segs but for the case
SamePath(p, segs) ==
  Len(p) = Len(segs) /\ \A i \in DOMAIN p : SameName(p[i], segs[i])

\* The creation calls of upload u, given the folders chain its segments lead
\* through afterwards, are those of the segments 1..upto whose folder did
\* not exist before, in order, each under the folder of the segment before.
CallsAre(u, chain, upto) ==
  LET created == SeqOf({i \in 1..upto : chain[i] > u.before})
  IN /\ Len(u.calls) >= Len(created)
     /\ \A j \in DOMAIN created :
          /\ u.calls[j].name = u.name.segs[created[j]]
          /\ u.calls[j].parent =
               IF created[j] = 1 THEN Root ELSE chain[created[j] - 1]
          /\ u.calls[j].answer = "ok"

\* C21 as stated: an upload walks all the folder segments of its name: no
\* creation call for a segment that matches a folder (case ignored) of the
\* folder reached so far, exactly one for every other segment, under the
\* folder reached so far, and the file is posted to the last folder matched
\* or created.
FolderPathResolved ==
  \A k \in Uploads :
    LET u == tlog[k]
        n == Len(u.name.segs)
        chain == Reached(TreeAfter(k), Root, u.name.segs)
    IN /\ Len(chain) = n
       /\ CallsAre(u, chain, n)
       /\ Len(u.calls) = Cardinality({i \in 1..n : chain[i] > u.before})
       /\ u.folder_id = IF n = 0 THEN Root ELSE chain[n]

\* C21, amended: ... unless a creation call fails: that call is the last of
\* the upload, the segments after it are not walked and no file is posted.
FolderPathResolvedUnlessFailed ==
  \A k \in Uploads :
    LET u == tlog[k]
        n == Len(u.name.segs)
        chain == Reached(TreeAfter(k), Root, u.name.segs)
        m == Len(chain)
        made == Cardinality({i \in 1..m : chain[i] > u.before})
    IN IF u.posted
       THEN /\ m = n
            /\ CallsAre(u, chain, n)
            /\ Len(u.calls) = made
            /\ u.folder_id = IF n = 0 THEN Root ELSE chain[n]
       ELSE /\ m < n
            /\ CallsAre(u, chain, m)
            /\ Len(u.calls) = made + 1
            /\ u.calls[made + 1].name = u.name.segs[m + 1]
            /\ u.calls[made + 1].parent = (IF m = 0 THEN Root ELSE chain[m])
            /\ u.calls[made + 1].answer # "ok"
            /\ u.res = "raised"

\* "a/b/c" uploaded to a tree without folders: "a" is created in the root
\* folder, "b" in "a"; then "A/c" is uploaded and finds "a".
FolderPathResolvedUnlessFailedWitness ==
  /\ Len(tlog) = 2 /\ Uploads = {1, 2}
  /\ tlog[1].before = 0 /\ tlog[1].name.segs = <<"a", "b">>
  /\ tlog[1].posted /\ Len(tlog[1].calls) = 2
  /\ tlog[1].calls[2].parent = 1 /\ tlog[1].folder_id = 2
  /\ tlog[2].name.segs = <<"A">> /\ tlog[2].calls = <<>>
  /\ tlog[2].posted /\ tlog[2].folder_id = 1

\* C22: an upload one of whose creation calls is answered "the folder
\* already exists" goes on and posts the file.
FolderConflictIsSuccess ==
  \A k \in Uploads :
    (\E j \in DOMAIN tlog[k].calls : tlog[k].calls[j].answer = "exists") =>
      tlog[k].posted

\* C26: the list of folders only grows, the folders in it staying as they
\* are, and once a creation call for a folder has succeeded no later upload
\* of the run calls for the creation of a folder of that name (case ignored)
\* in the same folder.
TreeOnlyGrows ==
  /\ [][/\ Len(folders') >= Len(folders)
        /\ SubSeq(folders', 1, Len(folders)) = folders]_vars
  /\ [](\A k, l \in Uploads :
          k < l =>
            \A i \in DOMAIN tlog[k].calls : \A j \in DOMAIN tlog[l].calls :
              tlog[k].calls[i].answer = "ok" =>
                ~(/\ tlog[k].calls[i].parent = tlog[l].calls[j].parent
                  /\ SameName(tlog[k].calls[i].name, tlog[l].calls[j].name)))

\* The first upload created "a" and "b" in it; the second, to "A/b", is
\* posted without a creation call.
TreeOnlyGrowsWitness ==
  /\ Len(tlog) = 2 /\ Uploads = {1, 2}
  /\ Len(tlog[1].calls) = 2 /\ tlog[1].posted
  /\ tlog[1].name.segs = <<"a", "b">>
  /\ tlog[2].name.segs = <<"A", "b">> /\ tlog[2].calls = <<>>
  /\ tlog[2].posted /\ tlog[2].folder_id = tlog[1].folder_id
  /\ Len(folders) = 2

\* the tree has a document called as file name n in a folder whose path is
\* the folder segments of n
InTree(n) ==
  \E d \in docs : d.name = n.file /\ SamePath(PathOf(folders, d.parent), n.segs)

\* C23: a deletion of a name the tree has no document for sends no delete
\* request and raises nothing, and the loop goes on.
MissingTargetIsNoop ==
  \A k \in Deletions :
    ~InTree(tlog[k].name) =>
      /\ ~tlog[k].posted
      /\ tlog[k].res = "noop"
      /\ k = Len(tlog) => tpc = "run"

\* C27: a delete request is only ever sent for a document called as the
\* file name asked for, in a folder whose path is the folder segments asked
\* for.
DeletesExactPath ==
  \A k \in Deletions :
    tlog[k].posted =>
      /\ tlog[k].doc.name = tlog[k].name.file
      /\ SamePath(PathOf(folders, tlog[k].doc.parent), tlog[k].name.segs)

====
